---- MODULE Spec2Model ----
(***************************************************************************)
(* A model of package fs (wangkuiyi/fs): the path router FsPath, the       *)
(* dispatcher functions Create / Open / ReadDir / Mkdir / Stat of file.go  *)
(* and the in-memory filesystem InMemFS of inmem_fs.go, with Exists of     *)
(* webhdfs.go, the connection handles of HookupHDFS and the pipe of a      *)
(* WebFS Create.                                                           *)
(*                                                                         *)
(* A Go string is a sequence of one-character strings.  A *bytes.Buffer is *)
(* an index into `heap`; a buffer is the pair (buf, off) of bytes.Buffer:  *)
(* every byte ever written, and the number of bytes already read.          *)
(***************************************************************************)
EXTENDS Integers, Sequences, FiniteSets, Bags, TLC

VARIABLES
    im,       \* DefaultInMemFS: map from key (string) to *bytes.Buffer
    heap,     \* the bytes.Buffer objects allocated so far
    sinks,    \* the io.WriteCloser values returned by Create
    readers,  \* the io.ReadCloser values returned by Open
    ret,      \* what the last call returned
    disk,     \* the local filesystem: map from path to "file" or "dir"
    webfs,    \* var webfs *gowfs.FileSystem: is it non-nil
    rpcfs,    \* var rpcfs *hdfs.Client: is it non-nil
    pipes,    \* the io.Pipe of every WebFS Create, with its goroutine
    hooked,   \* a call of HookupHDFS has returned nil
    crashed   \* the process was aborted by a panic

vars == <<im, heap, sinks, readers, ret, disk, webfs, rpcfs, pipes, hooked, crashed>>

\* the state of the in-memory backend, of the local one, of the remote ones
memVars == <<im, heap, sinks, readers>>
remoteVars == <<webfs, rpcfs, pipes, hooked>>

(***************************************************************************)
(* Bounds of the model.                                                    *)
(***************************************************************************)
MaxDirBufs == 3     \* bytes.Buffer allocations of the directory specification
MaxDirWrites == 1   \* bytes written in the directory specification
MaxResources == 4   \* buffers, bytes written and readers of Spec, in total
MaxSuffixLen == 2   \* length of the generated path suffixes
MaxExistsBufs == 2  \* bytes.Buffer allocations of the existence specification
MaxRemotePipes == 1 \* pipes of the connection specification
MaxPipes == 1       \* pipes of the pipe specification
MaxPipeBytes == 2   \* bytes written into the pipes of the pipe specification
MaxCopyReaders == 1 \* readers opened in the copy-goroutine specification
MaxTokenBufs == 1   \* bytes.Buffer allocations of the token specification
MaxRaceCalls == 2   \* calls of Create in the concurrent specification
MaxRaceBytes == 2   \* bytes written in the concurrent specification
MaxFileResources == 4 \* buffers, bytes written and readers of the file specification

Bytes == {1, 2}

(***************************************************************************)
(* Strings.                                                                *)
(***************************************************************************)
Slash == "/"

\* strings.HasPrefix(s, prefix)
HasPrefix(s, prefix) ==
    /\ Len(s) >= Len(prefix)
    /\ SubSeq(s, 1, Len(prefix)) = prefix

\* strings.TrimPrefix(s, prefix)
TrimPrefix(s, prefix) ==
    IF HasPrefix(s, prefix) THEN SubSeq(s, Len(prefix) + 1, Len(s)) ELSE s

\* name[len(name)-1] == '/'
EndsWithSlash(s) == Len(s) > 0 /\ s[Len(s)] = Slash

RECURSIVE StripTrailingSlashes(_)
StripTrailingSlashes(s) ==
    IF EndsWithSlash(s) THEN StripTrailingSlashes(SubSeq(s, 1, Len(s) - 1)) ELSE s

\* index of the last '/' of s, 0 when there is none
LastSlash(s) ==
    LET I == {i \in 1..Len(s) : s[i] = Slash}
    IN  IF I = {} THEN 0 ELSE CHOOSE i \in I : \A j \in I : j <= i

\* path.Base(p): the last element of p, trailing slashes removed first;
\* "." for the empty path and "/" for a path of slashes only.
Base(p) ==
    IF p = <<>> THEN <<".">>
    ELSE LET q == StripTrailingSlashes(p)
             r == SubSeq(q, LastSlash(q) + 1, Len(q))
         IN  IF r = <<>> THEN <<Slash>> ELSE r

(***************************************************************************)
(* The path router.                                                        *)
(***************************************************************************)
Local == "Local"
InMem == "InMem"
WebFS == "WebFS"
HDFS  == "HDFS"
Type  == {Local, InMem, WebFS, HDFS}

WebFSPrefix == <<"/", "w", "e", "b", "f", "s", "/">>
HDFSPrefix  == <<"/", "h", "d", "f", "s", "/">>
InMemPrefix == <<"/", "i", "n", "m", "e", "m", "/">>

\* A plausible slip: the prefix is trimmed and the leading "/" not restored.
FsPathNoRoot(path) ==
    IF HasPrefix(path, WebFSPrefix) THEN [fs |-> WebFS, path |-> TrimPrefix(path, WebFSPrefix)]
    ELSE IF HasPrefix(path, HDFSPrefix) THEN [fs |-> HDFS, path |-> TrimPrefix(path, HDFSPrefix)]
    ELSE IF HasPrefix(path, InMemPrefix) THEN [fs |-> InMem, path |-> TrimPrefix(path, InMemPrefix)]
    ELSE [fs |-> Local, path |-> path]

\* A plausible slip: the reserved token is matched without the separator
\* that closes it.
FsPathLoose(path) ==
    IF HasPrefix(path, SubSeq(WebFSPrefix, 1, Len(WebFSPrefix) - 1))
    THEN [fs |-> WebFS, path |-> <<Slash>> \o TrimPrefix(path, WebFSPrefix)]
    ELSE IF HasPrefix(path, SubSeq(HDFSPrefix, 1, Len(HDFSPrefix) - 1))
    THEN [fs |-> HDFS, path |-> <<Slash>> \o TrimPrefix(path, HDFSPrefix)]
    ELSE IF HasPrefix(path, SubSeq(InMemPrefix, 1, Len(InMemPrefix) - 1))
    THEN [fs |-> InMem, path |-> <<Slash>> \o TrimPrefix(path, InMemPrefix)]
    ELSE [fs |-> Local, path |-> path]

\* FsPath(path): the first matching case of the switch wins.
FsPath(path) ==
    IF HasPrefix(path, WebFSPrefix) THEN [fs |-> WebFS, path |-> <<Slash>> \o TrimPrefix(path, WebFSPrefix)]
    ELSE IF HasPrefix(path, HDFSPrefix) THEN [fs |-> HDFS, path |-> <<Slash>> \o TrimPrefix(path, HDFSPrefix)]
    ELSE IF HasPrefix(path, InMemPrefix) THEN [fs |-> InMem, path |-> <<Slash>> \o TrimPrefix(path, InMemPrefix)]
    ELSE [fs |-> Local, path |-> path]

(***************************************************************************)
(* The unified metadata record and the errors.                             *)
(***************************************************************************)
FileMode0777 == 511

\* &FileInfo{name, size, mode: os.FileMode(0777), time: 0, dir}
FileInfo(name, size, dir) ==
    [name |-> name, size |-> size, mode |-> FileMode0777, time |-> 0, dir |-> dir]

Nil == "nil"
\* &os.PathError{Op, Path, Err: os.ErrNotExist}
PathErrNotExist == "PathError{ErrNotExist}"
\* errors.New("File does not exists")
ErrFileDoesNotExists == "File does not exists"

\* &os.PathError{Err: syscall.ENOTDIR}, &os.PathError{Err: syscall.EISDIR}
PathErrNotDir == "PathError{ENOTDIR}"
PathErrIsDir == "PathError{EISDIR}"
\* fmt.Errorf("Exists(%s): %v", name, e)
ErrExistsFailed == "Exists(name): error"
\* errNoWebFS, errNoRpcFS
errNoWebFS == "Have not established WebHDFS connection"
errNoRpcFS == "Have not established protobuf-based RPC connection"
\* an error that a call of gowfs or of hdfs returns
ErrRemote == "remote error"
\* the error of gowfs for a path the server reports absent (a
\* RemoteException, not an os.PathError)
ErrRemoteNotFound == "RemoteException: FileNotFoundException"
\* what a call of gowfs can answer, and what a call of hdfs can answer
WebReplies == {Nil, ErrRemoteNotFound, ErrRemote}
RpcReplies == {Nil, PathErrNotExist, ErrRemote}
\* fmt.Errorf("localFile %s must be local", localFile) and
\* fmt.Errorf("hdfsPath %s must refer to WebHDFS", hdfsPath)
ErrMustBeLocal == "localFile must be local"
ErrMustBeWebHDFS == "hdfsPath must refer to WebHDFS"
\* fmt.Errorf("Cannot open in-memory file %v", name)
ErrCannotOpen == "Cannot open in-memory file"
\* io.ErrClosedPipe
ErrClosedPipe == "io: read/write on closed pipe"
\* fmt.Errorf(err) of HookupHDFS, err being the messages collected
ErrHookup == "hookup error"
\* runtime error: invalid memory address or nil pointer dereference
PanicNilDeref == "panic: nil pointer dereference"

\* os.IsNotExist(err): true of os.ErrNotExist, also when wrapped in a PathError
IsNotExist(err) == err = PathErrNotExist

(***************************************************************************)
(* bytes.Buffer.                                                           *)
(***************************************************************************)
\* new(bytes.Buffer)
NewBuffer == [buf |-> <<>>, off |-> 0]

\* (*bytes.Buffer).Len(): the number of bytes of the unread portion
BufLen(b) == Len(b.buf) - b.off

\* the unread portion of the buffer, buf[off:]
Unread(b) == SubSeq(b.buf, b.off + 1, Len(b.buf))

\* (*bytes.Buffer).Write(p)
BufWrite(b, p) == [b EXCEPT !.buf = @ \o p]

\* (*bytes.Buffer).Read(p) with len(p) = n > 0: the bytes copied and the
\* buffer after; an empty buffer returns (0, io.EOF)
BufRead(b, n) ==
    LET k == IF n < BufLen(b) THEN n ELSE BufLen(b)
    IN  [data |-> SubSeq(b.buf, b.off + 1, b.off + k),
         eof  |-> BufLen(b) = 0,
         b    |-> [b EXCEPT !.off = @ + k]]

(***************************************************************************)
(* InMemFS: the methods as functions of the map m and the heap h.          *)
(***************************************************************************)
\* im[name] = v
MapSet(m, name, v) == [k \in DOMAIN m \cup {name} |-> IF k = name THEN v ELSE m[k]]

\* if name[len(name)-1] != '/' { name += "/" }
AsDir(name) == IF EndsWithSlash(name) THEN name ELSE name \o <<Slash>>

\* A plausible slip: an existing file keeps its buffer (no truncation).
InMemFS_CreateKeep(m, h, name) ==
    IF name \in DOMAIN m
    THEN [im |-> m, heap |-> Append(h, NewBuffer), b |-> m[name]]
    ELSE [im |-> MapSet(m, name, Len(h) + 1), heap |-> Append(h, NewBuffer), b |-> Len(h) + 1]

\* A plausible slip: the sink wraps a buffer other than the one in the map.
InMemFS_CreateDetached(m, h, name) ==
    [im |-> MapSet(m, name, Len(h) + 1), heap |-> h \o <<NewBuffer, NewBuffer>>, b |-> Len(h) + 2]

\* func (im InMemFS) Create(name string) io.WriteCloser
InMemFS_Create(m, h, name) ==
    [im |-> MapSet(m, name, Len(h) + 1), heap |-> Append(h, NewBuffer), b |-> Len(h) + 1]

\* func (im InMemFS) Open(name string) (io.ReadCloser, error): the reader
\* wraps the buffer of the map itself
InMemFS_Open(m, name) ==
    IF name \in DOMAIN m
    THEN [b |-> m[name], err |-> Nil]
    ELSE [b |-> 0, err |-> ErrFileDoesNotExists]

\* A plausible slip: the markers of the parents are installed as well, the
\* way os.MkdirAll makes the parents.
InMemFS_MkDirAll(m, h, name) ==
    LET d  == AsDir(name)
        ds == {SubSeq(d, 1, i) : i \in {j \in 2..Len(d) : d[j] = Slash}}
    IN  [im   |-> [k \in DOMAIN m \cup ds |-> IF k \in ds THEN Len(h) + 1 ELSE m[k]],
         heap |-> Append(h, NewBuffer)]

\* A plausible slip: the marker takes the place of the file of the same
\* name, whose key is deleted.
InMemFS_MkDirReplace(m, h, name) ==
    LET ks == (DOMAIN m \ {StripTrailingSlashes(name)}) \cup {AsDir(name)}
    IN  [im   |-> [k \in ks |-> IF k = AsDir(name) THEN Len(h) + 1 ELSE m[k]],
         heap |-> Append(h, NewBuffer)]

\* func (im InMemFS) MkDir(name string)
InMemFS_MkDir(m, h, name) ==
    [im |-> MapSet(m, AsDir(name), Len(h) + 1), heap |-> Append(h, NewBuffer)]

\* A plausible slip: the arguments of strings.HasPrefix are exchanged.
ChildKeysOfPrefix(m, dir) == {k \in DOMAIN m : HasPrefix(dir, k) /\ k # dir}

\* the keys the loop of ReadDir selects
ChildKeys(m, dir) == {k \in DOMAIN m : HasPrefix(k, dir) /\ k # dir}

\* A plausible slip: the directory flag is taken from the directory's name
\* instead of the child's.
ChildInfoDirOfName(m, h, dir, k) ==
    LET n == Base(TrimPrefix(k, dir))
    IN  FileInfo(n, BufLen(h[m[k]]), EndsWithSlash(dir))

\* the FileInfo the loop of ReadDir appends for key k
ChildInfo(m, h, dir, k) ==
    LET n == Base(TrimPrefix(k, dir))
    IN  FileInfo(n, BufLen(h[m[k]]), EndsWithSlash(n))

\* A plausible slip: the existence check of the directory is missing.
InMemFS_ReadDirNoCheck(m, h, name) ==
    LET dir == AsDir(name)
        ks  == ChildKeys(m, dir)
        is  == {ChildInfo(m, h, dir, k) : k \in ks}
    IN  [infos |-> [i \in is |-> Cardinality({k \in ks : ChildInfo(m, h, dir, k) = i})],
         err   |-> Nil]

\* A plausible slip: the directory itself is not skipped by the loop.
InMemFS_ReadDirCountsSelf(m, h, name) ==
    LET dir == AsDir(name)
        ks  == {k \in DOMAIN m : HasPrefix(k, dir)}
        is  == {ChildInfo(m, h, dir, k) : k \in ks}
    IN  IF dir \notin DOMAIN m
        THEN [infos |-> EmptyBag, err |-> PathErrNotExist]
        ELSE [infos |-> [i \in is |-> Cardinality({k \in ks : ChildInfo(m, h, dir, k) = i})],
              err   |-> Nil]

\* func (im InMemFS) ReadDir(name string) ([]os.FileInfo, error): the slice
\* as a bag, the map being ranged over in no particular order
InMemFS_ReadDir(m, h, name) ==
    LET dir == AsDir(name)
        ks  == ChildKeys(m, dir)
        is  == {ChildInfo(m, h, dir, k) : k \in ks}
    IN  IF dir \notin DOMAIN m
        THEN [infos |-> EmptyBag, err |-> PathErrNotExist]
        ELSE [infos |-> [i \in is |-> Cardinality({k \in ks : ChildInfo(m, h, dir, k) = i})],
              err   |-> Nil]

\* func (im InMemFS) Exists(name string) bool
InMemFS_Exists(m, name) == name \in DOMAIN m

\* A plausible slip: Stat normalises its argument the way ReadDir does.
InMemFS_StatAsDir(m, h, name) ==
    IF AsDir(name) \in DOMAIN m
    THEN [info |-> {FileInfo(Base(name), BufLen(h[m[AsDir(name)]]), TRUE)}, err |-> Nil]
    ELSE [info |-> {}, err |-> PathErrNotExist]

\* func (im InMemFS) Stat(name string) (os.FileInfo, error)
InMemFS_Stat(m, h, name) ==
    IF name \in DOMAIN m
    THEN [info |-> {FileInfo(Base(name), BufLen(h[m[name]]), EndsWithSlash(name))}, err |-> Nil]
    ELSE [info |-> {}, err |-> PathErrNotExist]

(***************************************************************************)
(* The local filesystem, as package os presents it: d maps every existing  *)
(* path to "file" or "dir"; the root is a directory.  The bytes of a local *)
(* file are not part of the model.                                         *)
(***************************************************************************)
\* the proper ancestors of a path, the root left out
Ancestors(path) ==
    {SubSeq(path, 1, i - 1) : i \in {j \in 2..Len(path) : path[j] = Slash}}

\* path resolution fails at an ancestor: with ENOTDIR at a file, with ENOENT
\* at a missing name; Nil when every ancestor is a directory
Lookup(d, path) ==
    IF \E a \in Ancestors(path) : a \in DOMAIN d /\ d[a] = "file" THEN PathErrNotDir
    ELSE IF \E a \in Ancestors(path) : a \notin DOMAIN d THEN PathErrNotExist
    ELSE Nil

\* os.Stat(path)
OsStat(d, path) ==
    IF Lookup(d, path) # Nil THEN [info |-> {}, err |-> Lookup(d, path)]
    ELSE IF path \notin DOMAIN d THEN [info |-> {}, err |-> PathErrNotExist]
    ELSE [info |-> {FileInfo(Base(path), 0, d[path] = "dir")}, err |-> Nil]

\* os.Create(path): O_RDWR|O_CREATE|O_TRUNC
OsCreate(d, path) ==
    IF Lookup(d, path) # Nil THEN [disk |-> d, err |-> Lookup(d, path)]
    ELSE IF path \in DOMAIN d /\ d[path] = "dir" THEN [disk |-> d, err |-> PathErrIsDir]
    ELSE [disk |-> MapSet(d, path, "file"), err |-> Nil]

\* os.MkdirAll(path, 0777)
OsMkdirAll(d, path) ==
    LET ds == Ancestors(path) \cup {path}
    IN  IF \E a \in ds : a \in DOMAIN d /\ d[a] = "file"
        THEN [disk |-> d, err |-> PathErrNotDir]
        ELSE [disk |-> [k \in DOMAIN d \cup ds |-> IF k \in DOMAIN d THEN d[k] ELSE "dir"],
              err  |-> Nil]

(***************************************************************************)
(* The calls of the program under test.  Every call leaves its result in   *)
(* ret, so that in every state ret is the result of the last call and the  *)
(* other variables are the state that call left.                           *)
(***************************************************************************)
\* the unified paths the callers use on the in-memory backend
MemNames ==
    {InMemPrefix \o s : s \in {<<"a">>, <<"a", "/">>, <<"a", "/", "b">>,
                               <<"a", "/", "b", "/", "c">>}}

Ret(op, name, t) ==
    [op |-> op, name |-> name, fs |-> t.fs, path |-> t.path, err |-> Nil,
     info |-> {}, infos |-> EmptyBag, h |-> 0, data |-> <<>>, eof |-> FALSE,
     ok |-> FALSE, reply |-> Nil, dest |-> <<>>, sent |-> FALSE]

NoRet == Ret("none", <<>>, [fs |-> Local, path |-> <<>>])

\* the bytes written to the buffers so far
RECURSIVE Written(_)
Written(h) == IF h = <<>> THEN 0 ELSE Len(Head(h).buf) + Written(Tail(h))

\* the last sink a Create of key `path` returned, 0 when there is none
LatestSink(ss, path) ==
    LET I == {i \in 1..Len(ss) : ss[i].path = path}
    IN  IF I = {} THEN 0 ELSE CHOOSE i \in I : \A j \in I : j <= i

\* the number of bytes written through sink i so far (0 for no sink)
WroteLen(ss, i) == IF i = 0 THEN 0 ELSE Len(ss[i].wrote)

Init ==
    /\ im = <<>>
    /\ heap = <<>>
    /\ sinks = <<>>
    /\ readers = <<>>
    /\ ret = NoRet
    /\ disk = (<<"/", "t", "m", "p">> :> "dir")
    /\ webfs = FALSE
    /\ rpcfs = FALSE
    /\ pipes = <<>>
    /\ hooked = FALSE
    /\ crashed = FALSE

\* r, w := io.Pipe() and the goroutine started on r: pend is what the Write
\* in progress has still to hand over, wrote every byte passed to Write, rd
\* every byte webfs.Create has read, pc the position of the goroutine
NewPipe(path) ==
    [path |-> path, wrote |-> <<>>, pend |-> <<>>, rd |-> <<>>,
     wclosed |-> FALSE, rclosed |-> FALSE, eof |-> FALSE, pc |-> "run"]

\* case WebFS of Create
CreateWebFS(name, t) ==
    /\ IF ~webfs
       THEN /\ ret' = [Ret("Create", name, t) EXCEPT !.err = errNoWebFS]
            /\ pipes' = pipes
       ELSE /\ ret' = [Ret("Create", name, t) EXCEPT !.h = Len(pipes) + 1]
            /\ pipes' = Append(pipes, NewPipe(t.path))
    /\ UNCHANGED <<memVars, disk, webfs, rpcfs, hooked, crashed>>

\* case HDFS of Create: rpcfs.Create(path) answers with a writer or an error
CreateHDFS(name, t) ==
    /\ IF ~rpcfs
       THEN ret' = [Ret("Create", name, t) EXCEPT !.err = errNoRpcFS]
       ELSE \E e \in {Nil, ErrRemote} : ret' = [Ret("Create", name, t) EXCEPT !.err = e]
    /\ UNCHANGED <<memVars, disk, remoteVars, crashed>>

\* case InMem of Create
CreateInMem(name, t) ==
    LET c == InMemFS_Create(im, heap, t.path)
    IN  /\ im' = c.im
        /\ heap' = c.heap
        /\ sinks' = Append(sinks, [b |-> c.b, path |-> t.path, wrote |-> <<>>, closed |-> FALSE])
        /\ ret' = [Ret("Create", name, t) EXCEPT !.h = Len(sinks) + 1]
        /\ UNCHANGED <<readers, disk, remoteVars, crashed>>

\* default case of Create: os.Create(path)
CreateLocal(name, t) ==
    LET c == OsCreate(disk, t.path)
    IN  /\ disk' = c.disk
        /\ ret' = [Ret("Create", name, t) EXCEPT !.err = c.err]
        /\ UNCHANGED <<memVars, remoteVars, crashed>>

\* func Create(name string) (io.WriteCloser, error)
Create(name) ==
    LET t == FsPath(name)
    IN  /\ ~crashed
        /\ CASE t.fs = WebFS -> CreateWebFS(name, t)
             [] t.fs = HDFS  -> CreateHDFS(name, t)
             [] t.fs = InMem -> CreateInMem(name, t)
             [] OTHER        -> CreateLocal(name, t)

\* A plausible slip: a sink that was closed refuses further writes.
WriteUnlessClosed(s, p) ==
    /\ ~crashed
    /\ IF sinks[s].closed
       THEN /\ ret' = [NoRet EXCEPT !.op = "Write", !.err = ErrClosedPipe]
            /\ UNCHANGED <<heap, sinks>>
       ELSE /\ heap' = [heap EXCEPT ![sinks[s].b] = BufWrite(@, p)]
            /\ sinks' = [sinks EXCEPT ![s].wrote = @ \o p]
            /\ ret' = [NoRet EXCEPT !.op = "Write"]
    /\ UNCHANGED <<im, readers, disk, remoteVars, crashed>>

\* w.Write(p) on a sink of Create: nopCloser embeds the *bytes.Buffer, so
\* the bytes are appended to it, whether or not Close was called before
Write(s, p) ==
    /\ ~crashed
    /\ heap' = [heap EXCEPT ![sinks[s].b] = BufWrite(@, p)]
    /\ sinks' = [sinks EXCEPT ![s].wrote = @ \o p]
    /\ ret' = [NoRet EXCEPT !.op = "Write"]
    /\ UNCHANGED <<im, readers, disk, remoteVars, crashed>>

\* func (nopCloser) Close() error { return nil }
Close(s) ==
    /\ ~crashed
    /\ sinks' = [sinks EXCEPT ![s].closed = TRUE]
    /\ ret' = [NoRet EXCEPT !.op = "Close"]
    /\ UNCHANGED <<im, heap, readers, disk, remoteVars, crashed>>

\* a call that changes nothing and returns one of the errors of E
Answer(op, name, t, E) ==
    /\ \E e \in E : ret' = [Ret(op, name, t) EXCEPT !.err = e]
    /\ UNCHANGED <<memVars, disk, remoteVars, crashed>>

\* a call on the WebFS connection that changes nothing: the server's reply
\* is the error `reply`, the call returns the error err
Replied(op, name, t, err, reply) ==
    /\ ret' = [Ret(op, name, t) EXCEPT !.err = err, !.reply = reply]
    /\ UNCHANGED <<memVars, disk, remoteVars, crashed>>

\* a method of the nil *hdfs.Client reads a field of its receiver: the
\* runtime panics and, nothing recovering, the process is aborted
NilDeref(op, name, t) ==
    /\ ret' = [Ret(op, name, t) EXCEPT !.err = PanicNilDeref]
    /\ crashed' = TRUE
    /\ UNCHANGED <<memVars, disk, remoteVars>>

\* os.Open(path)
OsOpen(d, path) ==
    IF Lookup(d, path) # Nil THEN Lookup(d, path)
    ELSE IF path \notin DOMAIN d THEN PathErrNotExist
    ELSE Nil

\* case InMem of Open
OpenInMem(name, t) ==
    LET o == InMemFS_Open(im, t.path)
    IN  /\ IF o.err = Nil
           THEN /\ readers' = Append(readers,
                       [b |-> o.b, path |-> t.path, got |-> <<>>, eof |-> FALSE,
                        sink |-> LatestSink(sinks, t.path),
                        wlen0 |-> WroteLen(sinks, LatestSink(sinks, t.path))])
                /\ ret' = [Ret("Open", name, t) EXCEPT !.h = Len(readers) + 1]
           ELSE /\ readers' = readers
                /\ ret' = [Ret("Open", name, t) EXCEPT !.err = o.err]
        /\ UNCHANGED <<im, heap, sinks, disk, remoteVars, crashed>>

\* func Open(name string) (io.ReadCloser, error)
Open(name) ==
    LET t == FsPath(name)
    IN  /\ ~crashed
        /\ CASE t.fs = WebFS ->
                  Answer("Open", name, t, IF webfs THEN WebReplies ELSE {errNoWebFS})
             [] t.fs = HDFS ->
                  Answer("Open", name, t, IF rpcfs THEN RpcReplies ELSE {errNoRpcFS})
             [] t.fs = InMem -> OpenInMem(name, t)
             [] OTHER -> Answer("Open", name, t, {OsOpen(disk, t.path)})

\* r.Read(p) with len(p) = n on a reader of Open: ioutil.NopCloser wraps
\* the *bytes.Buffer of the map, whose Read advances its offset
Read(r, n) ==
    LET x == BufRead(heap[readers[r].b], n)
    IN  /\ ~crashed
        /\ heap' = [heap EXCEPT ![readers[r].b] = x.b]
        /\ readers' = [readers EXCEPT ![r].got = @ \o x.data, ![r].eof = x.eof]
        /\ ret' = [NoRet EXCEPT !.op = "Read", !.data = x.data, !.eof = x.eof]
        /\ UNCHANGED <<im, sinks, disk, remoteVars, crashed>>

\* a call that changes nothing and returns the records infos or the error
Listing(name, t, infos, err) ==
    /\ ret' = [Ret("ReadDir", name, t) EXCEPT !.infos = infos, !.err = err]
    /\ UNCHANGED <<memVars, disk, remoteVars, crashed>>

\* the statuses a server can list for a directory: none, a file, a directory
RemoteListings ==
    {EmptyBag} \cup {SetToBag({FileInfo(<<"b">>, 0, dir)}) : dir \in BOOLEAN}

\* ioutil.ReadDir(path)
OsReadDir(d, path) ==
    LET sub == {k \in DOMAIN d : Len(k) > Len(path) + 1
                                  /\ SubSeq(k, 1, Len(path) + 1) = path \o <<Slash>>
                                  /\ \A i \in (Len(path) + 2)..Len(k) : k[i] # Slash}
    IN  IF OsOpen(d, path) # Nil THEN [infos |-> EmptyBag, err |-> OsOpen(d, path)]
        ELSE IF d[path] = "file" THEN [infos |-> EmptyBag, err |-> PathErrNotDir]
        ELSE [infos |-> SetToBag({FileInfo(Base(k), 0, d[k] = "dir") : k \in sub}),
              err   |-> Nil]

\* func ReadDir(name string) ([]os.FileInfo, error)
ReadDir(name) ==
    LET t == FsPath(name)
        m == InMemFS_ReadDir(im, heap, t.path)
        l == OsReadDir(disk, t.path)
    IN  /\ ~crashed
        /\ CASE t.fs = WebFS ->
                  IF ~webfs THEN Listing(name, t, EmptyBag, errNoWebFS)
                  ELSE \/ \E e \in WebReplies \ {Nil} : Replied("ReadDir", name, t, e, e)
                       \/ \E is \in RemoteListings : Listing(name, t, is, Nil)
             [] t.fs = HDFS ->
                  IF ~rpcfs THEN NilDeref("ReadDir", name, t)
                  ELSE \/ \E e \in RpcReplies \ {Nil} : Listing(name, t, EmptyBag, e)
                       \/ \E is \in RemoteListings : Listing(name, t, is, Nil)
             [] t.fs = InMem -> Listing(name, t, m.infos, m.err)
             [] OTHER -> Listing(name, t, l.infos, l.err)

\* case InMem of Mkdir
MkdirInMem(name, t) ==
    LET d == InMemFS_MkDir(im, heap, t.path)
    IN  /\ im' = d.im
        /\ heap' = d.heap
        /\ ret' = Ret("Mkdir", name, t)
        /\ UNCHANGED <<sinks, readers, disk, remoteVars, crashed>>

\* default case of Mkdir: os.MkdirAll(path, 0777)
MkdirLocal(name, t) ==
    LET d == OsMkdirAll(disk, t.path)
    IN  /\ disk' = d.disk
        /\ ret' = [Ret("Mkdir", name, t) EXCEPT !.err = d.err]
        /\ UNCHANGED <<memVars, remoteVars, crashed>>

\* func Mkdir(name string) error
Mkdir(name) ==
    LET t == FsPath(name)
    IN  /\ ~crashed
        /\ CASE t.fs = WebFS ->
                  Answer("Mkdir", name, t, IF webfs THEN WebReplies ELSE {errNoWebFS})
             [] t.fs = HDFS ->
                  IF ~rpcfs THEN NilDeref("Mkdir", name, t)
                  ELSE Answer("Mkdir", name, t, RpcReplies)
             [] t.fs = InMem -> MkdirInMem(name, t)
             [] OTHER -> MkdirLocal(name, t)

\* a call that changes nothing and returns the record info or the error
Status(name, t, info, err) ==
    /\ ret' = [Ret("Stat", name, t) EXCEPT !.info = info, !.err = err]
    /\ UNCHANGED <<memVars, disk, remoteVars, crashed>>

\* the status a server can report for path p: a file or a directory
RemoteStatus(p) == {FileInfo(Base(p), 0, dir) : dir \in BOOLEAN}

\* case WebFS of Stat on a connection: whatever error GetFileStatus returns,
\* Stat returns &os.PathError{Err: os.ErrNotExist}
StatWebFS(name, t) ==
    \/ \E e \in WebReplies \ {Nil} : Replied("Stat", name, t, PathErrNotExist, e)
    \/ \E i \in RemoteStatus(t.path) : Status(name, t, {i}, Nil)

\* func Stat(name string) (os.FileInfo, error)
Stat(name) ==
    LET t == FsPath(name)
        m == InMemFS_Stat(im, heap, t.path)
        l == OsStat(disk, t.path)
    IN  /\ ~crashed
        /\ CASE t.fs = WebFS ->
                  IF ~webfs THEN Status(name, t, {}, errNoWebFS) ELSE StatWebFS(name, t)
             [] t.fs = HDFS ->
                  IF ~rpcfs THEN NilDeref("Stat", name, t)
                  ELSE \/ \E e \in RpcReplies \ {Nil} : Status(name, t, {}, e)
                       \/ \E i \in RemoteStatus(t.path) : Status(name, t, {i}, Nil)
             [] t.fs = InMem -> Status(name, t, m.info, m.err)
             [] OTHER -> Status(name, t, l.info, l.err)

\* a call of Exists that changes nothing and returns (ok, err)
Existence(name, t, ok, err) ==
    /\ ret' = [Ret("Exists", name, t) EXCEPT !.ok = ok, !.err = err]
    /\ UNCHANGED <<memVars, disk, remoteVars, crashed>>

\* A plausible slip: every error of os.Stat is returned, the not-exist
\* error too.
ExistsLocalStrict(d, path) ==
    LET e == OsStat(d, path).err
    IN  IF e # Nil THEN [ok |-> FALSE, err |-> ErrExistsFailed]
        ELSE [ok |-> TRUE, err |-> Nil]

\* default case of Exists: os.Stat(path), a not-exist error answered false
ExistsLocal(d, path) ==
    LET e == OsStat(d, path).err
    IN  IF e # Nil
        THEN IF IsNotExist(e) THEN [ok |-> FALSE, err |-> Nil]
             ELSE [ok |-> FALSE, err |-> ErrExistsFailed]
        ELSE [ok |-> TRUE, err |-> Nil]

\* func Exists(name string) (bool, error): its switch has the cases WebFS
\* and InMem, every other path is answered by os.Stat
Exists(name) ==
    LET t == FsPath(name)
        l == ExistsLocal(disk, t.path)
    IN  /\ ~crashed
        /\ CASE t.fs = WebFS ->
                  IF ~webfs THEN Existence(name, t, FALSE, errNoWebFS)
                  ELSE \/ \E ok \in BOOLEAN : Existence(name, t, ok, Nil)
                       \/ Existence(name, t, FALSE, ErrRemote)
             [] t.fs = InMem -> Existence(name, t, InMemFS_Exists(im, t.path), Nil)
             [] OTHER -> Existence(name, t, l.ok, l.err)

\* A plausible slip: the two paths are checked before the connection.
PutCheckPathsFirst(connected, localFile, hdfsPath) ==
    IF FsPath(localFile).fs # Local THEN ErrMustBeLocal
    ELSE IF FsPath(hdfsPath).fs # WebFS THEN ErrMustBeWebHDFS
    ELSE IF ~connected THEN errNoWebFS
    ELSE Nil

\* the checks of Put before it calls the shell: the error it returns, Nil
\* when it goes on to fs.Put
PutCheck(connected, localFile, hdfsPath) ==
    IF ~connected THEN errNoWebFS
    ELSE IF FsPath(localFile).fs # Local THEN ErrMustBeLocal
    ELSE IF FsPath(hdfsPath).fs # WebFS THEN ErrMustBeWebHDFS
    ELSE Nil

\* what (*gowfs.FsShell).Put(src, dest, true) can answer
PutReplies == {[ok |-> TRUE, err |-> Nil], [ok |-> FALSE, err |-> ErrRemote]}

\* func Put(localFile, hdfsPath string) (bool, error); ret.dest is hdfsPath
\* and ret.sent tells whether fs.Put was called
Put(localFile, hdfsPath) ==
    LET e == PutCheck(webfs, localFile, hdfsPath)
        r == [Ret("Put", localFile, FsPath(localFile)) EXCEPT !.dest = hdfsPath]
    IN  /\ ~crashed
        /\ IF e # Nil
           THEN ret' = [r EXCEPT !.err = e]
           ELSE \E a \in PutReplies :
                    ret' = [r EXCEPT !.sent = TRUE, !.ok = a.ok, !.err = a.err]
        /\ UNCHANGED <<memVars, disk, remoteVars, crashed>>

(***************************************************************************)
(* HookupHDFS and the pipe of a WebFS Create.                              *)
(***************************************************************************)
\* func HookupHDFS(namenode, webapi, role string) error.  The environment
\* decides whether user.Current fails (userErr), and whether
\* hdfs.NewForUser, gowfs.NewFileSystem and testConnection succeed; each
\* handle is assigned as soon as its constructor succeeds.
HookupHDFS(userErr, rpcOK, webOK, testOK) ==
    LET err == IF ~userErr /\ rpcOK /\ webOK /\ testOK THEN Nil ELSE ErrHookup
    IN  /\ ~crashed
        /\ rpcfs' = IF rpcOK THEN TRUE ELSE rpcfs
        /\ webfs' = IF webOK THEN TRUE ELSE webfs
        /\ hooked' = (hooked \/ err = Nil)
        /\ ret' = [NoRet EXCEPT !.op = "HookupHDFS", !.err = err]
        /\ UNCHANGED <<memVars, disk, pipes, crashed>>

\* A plausible slip: the reader is handed the bytes and the writer keeps
\* all but the first of them.
PipeReadKeep(pend, n) ==
    LET k == IF n < Len(pend) THEN n ELSE Len(pend)
    IN  [data |-> SubSeq(pend, 1, k), rest |-> SubSeq(pend, 2, Len(pend))]

\* (*io.PipeReader).Read(b) with len(b) = n meeting a Write of pend: the
\* bytes copied and what the Write has still to hand over
PipeRead(pend, n) ==
    LET k == IF n < Len(pend) THEN n ELSE Len(pend)
    IN  [data |-> SubSeq(pend, 1, k), rest |-> SubSeq(pend, k + 1, Len(pend))]

\* w.Write(p) on the sink of a WebFS Create, p not empty: on a closed pipe
\* it returns io.ErrClosedPipe; otherwise it blocks until the reader has
\* taken all of p (pend = <<>> again) or has closed its end
PipeWrite(i, p) ==
    /\ ~crashed
    /\ pipes[i].pend = <<>>
    /\ IF pipes[i].wclosed \/ pipes[i].rclosed
       THEN /\ ret' = [NoRet EXCEPT !.op = "PipeWrite", !.err = ErrClosedPipe]
            /\ pipes' = pipes
       ELSE /\ ret' = [NoRet EXCEPT !.op = "PipeWrite"]
            /\ pipes' = [pipes EXCEPT ![i].pend = p, ![i].wrote = @ \o p]
    /\ UNCHANGED <<memVars, disk, webfs, rpcfs, hooked, crashed>>

\* w.Close() by the caller, after its last Write has returned ("After
\* writing, the caller must close the writer end"): (*io.PipeWriter).Close
\* marks the pipe done and returns nil at once
PipeClose(i) ==
    /\ ~crashed
    /\ pipes[i].pend = <<>>
    /\ pipes' = [pipes EXCEPT ![i].wclosed = TRUE]
    /\ ret' = [NoRet EXCEPT !.op = "PipeClose", !.h = i]
    /\ UNCHANGED <<memVars, disk, webfs, rpcfs, hooked, crashed>>

\* webfs.Create reads len n from r while a Write is in progress
BackendRead(i, n) ==
    LET x == PipeRead(pipes[i].pend, n)
    IN  /\ ~crashed
        /\ pipes[i].pc = "run"
        /\ pipes[i].pend # <<>>
        /\ pipes' = [pipes EXCEPT ![i].rd = @ \o x.data, ![i].pend = x.rest]
        /\ UNCHANGED <<memVars, disk, webfs, rpcfs, hooked, crashed, ret>>

\* A plausible slip: the backend's read takes an idle pipe for a finished
\* one and returns io.EOF whenever no Write is in progress.
BackendEOFWhenIdle(i) ==
    /\ ~crashed
    /\ pipes[i].pc = "run"
    /\ pipes[i].pend = <<>>
    /\ ~pipes[i].eof
    /\ pipes' = [pipes EXCEPT ![i].eof = TRUE]
    /\ UNCHANGED <<memVars, disk, webfs, rpcfs, hooked, crashed, ret>>

\* A plausible slip: the backend's read waits for the reader's end to be
\* closed, not the writer's.
BackendEOFOfReader(i) ==
    /\ ~crashed
    /\ pipes[i].pc = "run"
    /\ pipes[i].rclosed
    /\ ~pipes[i].eof
    /\ pipes' = [pipes EXCEPT ![i].eof = TRUE]
    /\ UNCHANGED <<memVars, disk, webfs, rpcfs, hooked, crashed, ret>>

\* webfs.Create reads r after the caller's Close: io.EOF
BackendEOF(i) ==
    /\ ~crashed
    /\ pipes[i].pc = "run"
    /\ pipes[i].wclosed
    /\ ~pipes[i].eof
    /\ pipes' = [pipes EXCEPT ![i].eof = TRUE]
    /\ UNCHANGED <<memVars, disk, webfs, rpcfs, hooked, crashed, ret>>

\* webfs.Create returns e == nil, having read r to io.EOF: the goroutine ends
BackendReturn(i) ==
    /\ ~crashed
    /\ pipes[i].pc = "run"
    /\ pipes[i].eof
    /\ pipes' = [pipes EXCEPT ![i].pc = "done"]
    /\ UNCHANGED <<memVars, disk, webfs, rpcfs, hooked, crashed, ret>>

\* webfs.Create returns e != nil, at any point of the transfer
BackendFail(i) ==
    /\ ~crashed
    /\ pipes[i].pc = "run"
    /\ pipes' = [pipes EXCEPT ![i].pc = "failed"]
    /\ UNCHANGED <<memVars, disk, webfs, rpcfs, hooked, crashed, ret>>

\* the goroutine after a failure: r.Close(), which makes a Write in
\* progress return io.ErrClosedPipe; w.Close(); log.Panicf(...)
GoCloseR(i) ==
    /\ ~crashed
    /\ pipes[i].pc = "failed"
    /\ pipes' = [pipes EXCEPT ![i].pc = "closedR", ![i].rclosed = TRUE, ![i].pend = <<>>]
    /\ UNCHANGED <<memVars, disk, webfs, rpcfs, hooked, crashed, ret>>

GoCloseW(i) ==
    /\ ~crashed
    /\ pipes[i].pc = "closedR"
    /\ pipes' = [pipes EXCEPT ![i].pc = "closedW", ![i].wclosed = TRUE]
    /\ UNCHANGED <<memVars, disk, webfs, rpcfs, hooked, crashed, ret>>

\* A plausible slip: the failure is logged with log.Printf, which returns.
GoLogOnly(i) ==
    /\ ~crashed
    /\ pipes[i].pc = "closedW"
    /\ pipes' = [pipes EXCEPT ![i].pc = "panicked"]
    /\ UNCHANGED <<memVars, disk, webfs, rpcfs, hooked, crashed, ret>>

GoPanic(i) ==
    /\ ~crashed
    /\ pipes[i].pc = "closedW"
    /\ pipes' = [pipes EXCEPT ![i].pc = "panicked"]
    /\ crashed' = TRUE
    /\ UNCHANGED <<memVars, disk, webfs, rpcfs, hooked, ret>>

(***************************************************************************)
(* The connection specification: HookupHDFS with every outcome, and every  *)
(* call of the dispatcher on a WebFS path and on an HDFS path.             *)
(***************************************************************************)
RemoteNames == {WebFSPrefix \o <<"a">>, HDFSPrefix \o <<"a">>}

NextRemote ==
    \/ \E userErr, rpcOK, webOK, testOK \in BOOLEAN : HookupHDFS(userErr, rpcOK, webOK, testOK)
    \/ \E name \in RemoteNames : Len(pipes) < MaxRemotePipes /\ Create(name)
    \/ \E name \in RemoteNames : Open(name)
    \/ \E name \in RemoteNames : ReadDir(name)
    \/ \E name \in RemoteNames : Mkdir(name)
    \/ \E name \in RemoteNames : Stat(name)
    \/ \E name \in RemoteNames : Exists(name)

SpecRemote == Init /\ [][NextRemote]_vars

(***************************************************************************)
(* The copy specification: HookupHDFS with every outcome, and Put with     *)
(* every pair of a source and a destination of PutNames: a local path, the *)
(* token /webfs without a separator, and one path of each other backend.   *)
(***************************************************************************)
PutNames ==
    {<<"/", "t", "m", "p", "/", "b">>, SubSeq(WebFSPrefix, 1, Len(WebFSPrefix) - 1),
     WebFSPrefix \o <<"a">>, HDFSPrefix \o <<"a">>, InMemPrefix \o <<"a">>}

NextPut ==
    \/ \E userErr, rpcOK, webOK, testOK \in BOOLEAN : HookupHDFS(userErr, rpcOK, webOK, testOK)
    \/ \E localFile, hdfsPath \in PutNames : Put(localFile, hdfsPath)

SpecPut == Init /\ [][NextPut]_vars

(***************************************************************************)
(* The pipe specification: HookupHDFS, Create on a WebFS path, the         *)
(* caller's Write and Close on the sinks and the steps of the goroutines.  *)
(***************************************************************************)
\* the bytes passed to the Writes of the pipes so far
RECURSIVE PipeBytes(_)
PipeBytes(ps) == IF ps = <<>> THEN 0 ELSE Len(Head(ps).wrote) + PipeBytes(Tail(ps))

\* the byte slices the caller writes
Chunks == {<<1>>, <<2>>, <<1, 2>>}

NextPipe ==
    \/ \E testOK \in BOOLEAN : HookupHDFS(FALSE, TRUE, TRUE, testOK)
    \/ Len(pipes) < MaxPipes /\ Create(WebFSPrefix \o <<"a">>)
    \/ \E i \in DOMAIN pipes, p \in Chunks :
           PipeBytes(pipes) + Len(p) <= MaxPipeBytes /\ PipeWrite(i, p)
    \/ \E i \in DOMAIN pipes : PipeClose(i)
    \/ \E i \in DOMAIN pipes, n \in 1..2 : BackendRead(i, n)
    \/ \E i \in DOMAIN pipes : BackendEOF(i)
    \/ \E i \in DOMAIN pipes : BackendReturn(i)
    \/ \E i \in DOMAIN pipes : BackendFail(i)
    \/ \E i \in DOMAIN pipes : GoCloseR(i)
    \/ \E i \in DOMAIN pipes : GoCloseW(i)
    \/ \E i \in DOMAIN pipes : GoPanic(i)

SpecPipe == Init /\ [][NextPipe]_vars

(***************************************************************************)
(* The revision in which Create pipes into the in-memory file: Create      *)
(* calls inmemfs.Create, whose map and buffers are those of                *)
(* InMemFS_Create, and starts a goroutine that runs io.Copy(f, r) from the *)
(* pipe into the file f.  Pipe i copies into the buffer of sink i.         *)
(***************************************************************************)
\* case InMem of that Create: f := inmemfs.Create(path); r, w := io.Pipe();
\* go func() { defer r.Close(); io.Copy(f, r) }(); return w, nil
CreatePiped(name) ==
    LET t == FsPath(name)
        c == InMemFS_Create(im, heap, t.path)
    IN  /\ ~crashed
        /\ t.fs = InMem
        /\ im' = c.im
        /\ heap' = c.heap
        /\ sinks' = Append(sinks, [b |-> c.b, path |-> t.path, wrote |-> <<>>, closed |-> FALSE])
        /\ pipes' = Append(pipes, NewPipe(t.path))
        /\ ret' = [Ret("Create", name, t) EXCEPT !.h = Len(pipes) + 1]
        /\ UNCHANGED <<readers, disk, webfs, rpcfs, hooked, crashed>>

\* io.Copy: r.Read(buf) with len(buf) = n while a Write is in progress; the
\* bytes are now in buf, and the Write returns once all of p is taken
CopyRead(i, n) ==
    LET x == PipeRead(pipes[i].pend, n)
    IN  /\ ~crashed
        /\ pipes[i].pc = "run"
        /\ pipes[i].pend # <<>>
        /\ pipes' = [pipes EXCEPT ![i].rd = @ \o x.data, ![i].pend = x.rest, ![i].pc = "copy"]
        /\ UNCHANGED <<memVars, disk, webfs, rpcfs, hooked, crashed, ret>>

\* io.Copy: f.Write(buf[:nr]), the bytes read last appended to the file
CopyWrite(i) ==
    LET chunk == SubSeq(pipes[i].rd, Len(sinks[i].wrote) + 1, Len(pipes[i].rd))
    IN  /\ ~crashed
        /\ pipes[i].pc = "copy"
        /\ heap' = [heap EXCEPT ![sinks[i].b] = BufWrite(@, chunk)]
        /\ sinks' = [sinks EXCEPT ![i].wrote = @ \o chunk]
        /\ pipes' = [pipes EXCEPT ![i].pc = "run"]
        /\ UNCHANGED <<im, readers, disk, webfs, rpcfs, hooked, crashed, ret>>

\* io.Copy: r.Read returns io.EOF after the caller's Close; io.Copy returns
\* nil, the deferred r.Close() runs and the goroutine ends
CopyEOF(i) ==
    /\ ~crashed
    /\ pipes[i].pc = "run"
    /\ pipes[i].wclosed
    /\ pipes[i].pend = <<>>
    /\ pipes' = [pipes EXCEPT ![i].eof = TRUE, ![i].rclosed = TRUE, ![i].pc = "done"]
    /\ UNCHANGED <<memVars, disk, webfs, rpcfs, hooked, crashed, ret>>

\* case InMem of that revision's Open: inmemfs.Open(path), the reader on the
\* buffer of the map; `after` records whether the caller's Writes and Close
\* on the pipe of that buffer had returned when Open was called
OpenPiped(name) ==
    LET t == FsPath(name)
        o == InMemFS_Open(im, t.path)
    IN  /\ ~crashed
        /\ t.fs = InMem
        /\ IF o.err = Nil
           THEN /\ readers' = Append(readers,
                       [b |-> o.b, path |-> t.path, got |-> <<>>, eof |-> FALSE,
                        after |-> \E i \in DOMAIN pipes :
                                      /\ sinks[i].b = o.b
                                      /\ pipes[i].wclosed
                                      /\ pipes[i].pend = <<>>])
                /\ ret' = [Ret("Open", name, t) EXCEPT !.h = Len(readers) + 1]
           ELSE /\ readers' = readers
                /\ ret' = [Ret("Open", name, t) EXCEPT !.err = ErrCannotOpen]
        /\ UNCHANGED <<im, heap, sinks, disk, remoteVars, crashed>>

CopyNames == {InMemPrefix \o <<"a">>}

NextCopy ==
    \/ \E name \in CopyNames : Len(pipes) < MaxPipes /\ CreatePiped(name)
    \/ \E i \in DOMAIN pipes, p \in Chunks :
           PipeBytes(pipes) + Len(p) <= MaxPipeBytes /\ PipeWrite(i, p)
    \/ \E i \in DOMAIN pipes : PipeClose(i)
    \/ \E i \in DOMAIN pipes, n \in 1..2 : CopyRead(i, n)
    \/ \E i \in DOMAIN pipes : CopyWrite(i)
    \/ \E i \in DOMAIN pipes : CopyEOF(i)
    \/ \E name \in CopyNames : Len(readers) < MaxCopyReaders /\ OpenPiped(name)
    \/ \E r \in DOMAIN readers, n \in 1..2 : Read(r, n)

SpecCopy == Init /\ [][NextCopy]_vars

(***************************************************************************)
(* The token specification: Mkdir, Stat and Exists on paths that hold a    *)
(* reserved token without the separator that closes it, or a look-alike    *)
(* of one, and on one in-memory path.                                      *)
(***************************************************************************)
TokenNames ==
    {SubSeq(WebFSPrefix, 1, Len(WebFSPrefix) - 1),
     SubSeq(HDFSPrefix, 1, Len(HDFSPrefix) - 1),
     SubSeq(InMemPrefix, 1, Len(InMemPrefix) - 1),
     <<"/", "i", "n", "m", "e", "m", "x", "/", "a">>,
     <<"/", "I", "N", "M", "E", "M", "/", "a">>,
     InMemPrefix \o <<"a">>}

NextToken ==
    \/ \E name \in TokenNames :
           (FsPath(name).fs = InMem => Len(heap) < MaxTokenBufs) /\ Mkdir(name)
    \/ \E name \in TokenNames : Stat(name)
    \/ \E name \in TokenNames : Exists(name)

SpecToken == Init /\ [][NextToken]_vars

(***************************************************************************)
(* Concurrent callers of Create on the in-memory backend.  No lock guards  *)
(* the map, so the statements of InMemFS.Create of one caller interleave   *)
(* with those of another.  sinks[c] is the c-th call: pc its position, own *)
(* the buffer it allocated, b the buffer its sink wraps (0 until the call  *)
(* returns).  A key mapped to 0 holds the nil pointer.                     *)
(***************************************************************************)
\* a goroutine calls Create(name), name an in-memory path
CreateCall(name) ==
    LET t == FsPath(name)
    IN  /\ ~crashed
        /\ t.fs = InMem
        /\ sinks' = Append(sinks, [b |-> 0, path |-> t.path, wrote |-> <<>>, closed |-> FALSE,
                                   own |-> 0, pc |-> "check"])
        /\ UNCHANGED <<im, heap, readers, disk, remoteVars, crashed, ret>>

\* if _, ok := im[name]; ok { im[name] = nil }
CreateNil(c) ==
    /\ ~crashed
    /\ sinks[c].pc = "check"
    /\ im' = IF sinks[c].path \in DOMAIN im THEN MapSet(im, sinks[c].path, 0) ELSE im
    /\ sinks' = [sinks EXCEPT ![c].pc = "assign"]
    /\ UNCHANGED <<heap, readers, disk, remoteVars, crashed, ret>>

\* im[name] = new(bytes.Buffer)
CreateAssign(c) ==
    /\ ~crashed
    /\ sinks[c].pc = "assign"
    /\ heap' = Append(heap, NewBuffer)
    /\ im' = MapSet(im, sinks[c].path, Len(heap) + 1)
    /\ sinks' = [sinks EXCEPT ![c].pc = "return", ![c].own = Len(heap) + 1]
    /\ UNCHANGED <<readers, disk, remoteVars, crashed, ret>>

\* return NopCloser(im[name]): the map is read again
CreateReturn(c) ==
    /\ ~crashed
    /\ sinks[c].pc = "return"
    /\ sinks' = [sinks EXCEPT ![c].pc = "done", ![c].b = im[sinks[c].path]]
    /\ ret' = [Ret("Create", InMemPrefix \o Tail(sinks[c].path), [fs |-> InMem, path |-> sinks[c].path])
                   EXCEPT !.h = c]
    /\ UNCHANGED <<im, heap, readers, disk, remoteVars, crashed>>

\* two calls are inside Create at once: the accesses to the map are a data
\* race, which the runtime may detect ("fatal error: concurrent map
\* writes") and abort the process
RaceFatal(c1, c2) ==
    /\ ~crashed
    /\ c1 # c2
    /\ sinks[c1].pc # "done"
    /\ sinks[c2].pc # "done"
    /\ crashed' = TRUE
    /\ UNCHANGED <<memVars, disk, remoteVars, ret>>

\* w.Write(p) on a sink that wraps the nil pointer the map held when the
\* call returned: (*bytes.Buffer).Write dereferences nil and panics
WriteNil(s) ==
    /\ ~crashed
    /\ sinks[s].pc = "done"
    /\ sinks[s].b = 0
    /\ crashed' = TRUE
    /\ ret' = [NoRet EXCEPT !.op = "Write", !.err = PanicNilDeref]
    /\ UNCHANGED <<memVars, disk, remoteVars>>

RaceNames == {InMemPrefix \o <<"a">>}

NextRace ==
    \/ \E name \in RaceNames : Len(sinks) < MaxRaceCalls /\ CreateCall(name)
    \/ \E c \in DOMAIN sinks : CreateNil(c)
    \/ \E c \in DOMAIN sinks : CreateAssign(c)
    \/ \E c \in DOMAIN sinks : CreateReturn(c)
    \/ \E c1, c2 \in DOMAIN sinks : RaceFatal(c1, c2)
    \/ \E s \in DOMAIN sinks, b \in Bytes :
           sinks[s].pc = "done" /\ sinks[s].b # 0 /\ Written(heap) < MaxRaceBytes /\ Write(s, <<b>>)
    \/ \E s \in DOMAIN sinks : WriteNil(s)

SpecRace == Init /\ [][NextRace]_vars

(***************************************************************************)
(* The directory specification: the calls that build and list the          *)
(* hierarchy, on every name of MemNames.                                   *)
(***************************************************************************)
NextDir ==
    \/ \E name \in MemNames : Len(heap) < MaxDirBufs /\ Create(name)
    \/ \E s \in DOMAIN sinks : Written(heap) < MaxDirWrites /\ Write(s, <<1>>)
    \/ \E name \in MemNames : Len(heap) < MaxDirBufs /\ Mkdir(name)
    \/ \E name \in MemNames : ReadDir(name)
    \/ \E name \in MemNames : Stat(name)

SpecDir == Init /\ [][NextDir]_vars

(***************************************************************************)
(* The specification of the in-memory backend: every call, on the names    *)
(* of Names, a file and the directory it is in.                            *)
(***************************************************************************)
Names == {InMemPrefix \o s : s \in {<<"a">>, <<"a", "/", "b">>}}

\* what the callers have taken so far
Used == Len(heap) + Written(heap) + Len(readers)

\* the lengths len(p) of a Read(p) that differ in effect on buffer b
ReadSizes(b) == 1..(IF BufLen(b) = 0 THEN 1 ELSE BufLen(b))

Next ==
    \/ \E name \in Names : Used < MaxResources /\ Create(name)
    \/ \E s \in DOMAIN sinks, b \in Bytes : Used < MaxResources /\ Write(s, <<b>>)
    \/ \E s \in DOMAIN sinks : Close(s)
    \/ \E name \in Names : (Used < MaxResources \/ ~InMemFS_Exists(im, FsPath(name).path)) /\ Open(name)
    \/ \E r \in DOMAIN readers : \E n \in ReadSizes(heap[readers[r].b]) : Read(r, n)
    \/ \E name \in Names : Used < MaxResources /\ Mkdir(name)
    \/ \E name \in Names : ReadDir(name)
    \/ \E name \in Names : Stat(name)

Spec == Init /\ [][Next]_vars

(***************************************************************************)
(* The existence specification: Create, Mkdir and Exists on local paths    *)
(* (a file, a path below it, a directory, a path below an absent           *)
(* directory) and on in-memory paths.                                      *)
(***************************************************************************)
LocalNames ==
    {<<"/", "t", "m", "p", "/", "b">>, <<"/", "t", "m", "p", "/", "b", "/", "x">>,
     <<"/", "t", "m", "p", "/", "q">>, <<"/", "t", "m", "p", "/", "q", "/", "y">>}

ExistsNames == LocalNames \cup Names

NextExists ==
    \/ \E name \in ExistsNames : Len(heap) < MaxExistsBufs /\ Create(name)
    \/ \E name \in ExistsNames : Len(heap) < MaxExistsBufs /\ Mkdir(name)
    \/ \E name \in ExistsNames : Exists(name)
    \/ \E name \in ExistsNames : Stat(name)

SpecExists == Init /\ [][NextExists]_vars

(***************************************************************************)
(* The router specification: FsPath applied to unified paths made of a     *)
(* head (a reserved prefix, a near miss of one, or a local directory) and  *)
(* a suffix.                                                               *)
(***************************************************************************)
RECURSIVE SeqsUpTo(_, _)
SeqsUpTo(S, n) ==
    IF n = 0 THEN {<<>>}
    ELSE LET T == SeqsUpTo(S, n - 1)
         IN  T \cup {Append(t, x) : t \in T, x \in S}

PathHeads ==
    {WebFSPrefix, HDFSPrefix, InMemPrefix,
     SubSeq(WebFSPrefix, 1, 6), SubSeq(HDFSPrefix, 1, 5), SubSeq(InMemPrefix, 1, 6),
     <<"/", "i", "n", "m", "e", "m", "x", "/">>,
     <<"/", "I", "N", "M", "E", "M", "/">>,
     <<"i", "n", "m", "e", "m", "/">>,
     <<"/", "t", "m", "p", "/">>,
     <<"/", "t">> \o InMemPrefix,
     HDFSPrefix \o SubSeq(WebFSPrefix, 2, 7),
     WebFSPrefix \o SubSeq(InMemPrefix, 2, 7),
     InMemPrefix \o SubSeq(HDFSPrefix, 2, 6),
     InMemPrefix \o SubSeq(InMemPrefix, 2, 7),
     <<"/", "h", "d", "f", "s", "x">>,
     <<"/">>, <<>>}

PathNames == {h \o s : h \in PathHeads, s \in SeqsUpTo({Slash, "a"}, MaxSuffixLen)}

\* a caller classifies the unified path `name`
FsPathCall(name) ==
    /\ ret' = Ret("FsPath", name, FsPath(name))
    /\ UNCHANGED <<memVars, disk, remoteVars, crashed>>

NextPath == \E name \in PathNames : FsPathCall(name)

SpecPath == Init /\ [][NextPath]_vars

(***************************************************************************)
(* The file specification: the calls on one in-memory file, its sinks and  *)
(* its readers.                                                            *)
(***************************************************************************)
FileNames == {InMemPrefix \o <<"a">>}

NextFile ==
    \/ \E name \in FileNames : Used < MaxFileResources /\ Create(name)
    \/ \E s \in DOMAIN sinks, b \in Bytes : Used < MaxFileResources /\ Write(s, <<b>>)
    \/ \E s \in DOMAIN sinks : Close(s)
    \/ \E name \in FileNames :
           (Used < MaxFileResources \/ ~InMemFS_Exists(im, FsPath(name).path)) /\ Open(name)
    \/ \E r \in DOMAIN readers : \E n \in ReadSizes(heap[readers[r].b]) : Read(r, n)
    \/ \E name \in FileNames : Stat(name)

SpecFile == Init /\ [][NextFile]_vars

(***************************************************************************)
(* Properties of the router.                                               *)
(***************************************************************************)
ReservedPrefixes == {WebFSPrefix, HDFSPrefix, InMemPrefix}

Backend(pre) ==
    IF pre = WebFSPrefix THEN WebFS ELSE IF pre = HDFSPrefix THEN HDFS ELSE InMem

\* name = pre + s for the string s == Suffix(name, pre)
StartsWith(name, pre) ==
    Len(name) >= Len(pre) /\ \A i \in 1..Len(pre) : name[i] = pre[i]
Suffix(name, pre) == [i \in 1..(Len(name) - Len(pre)) |-> name[Len(pre) + i]]

\* C1: a unified path made of a reserved prefix and a suffix s is routed to
\* the backend of that prefix with the backend-local path "/" + s; a path
\* that is exactly a reserved prefix maps to the root "/", and every
\* backend-local path of a backend other than Local starts with "/".
C1_PrefixRouting ==
    ret.op = "FsPath" =>
        /\ \A pre \in ReservedPrefixes :
               StartsWith(ret.name, pre) =>
                   /\ ret.fs = Backend(pre)
                   /\ ret.path = <<Slash>> \o Suffix(ret.name, pre)
        /\ ret.name \in ReservedPrefixes => ret.path = <<Slash>>
        /\ ret.fs # Local => Len(ret.path) >= 1 /\ ret.path[1] = Slash

C1_Witness ==
    /\ ret.op = "FsPath"
    /\ ret.name = InMemPrefix
    /\ ret.fs = InMem
    /\ ret.path = <<Slash>>

\* C2: FsPath is total: every path is routed to exactly one of the four
\* backends, and a path that starts with none of the reserved prefixes is
\* routed to Local with the path returned unchanged.
C2_TotalDefaultLocal ==
    ret.op = "FsPath" =>
        /\ ret.fs \in Type
        /\ (\A pre \in ReservedPrefixes : ~StartsWith(ret.name, pre)) =>
               ret.fs = Local /\ ret.path = ret.name
        /\ ret.fs = Local => \A pre \in ReservedPrefixes : ~StartsWith(ret.name, pre)

C2_Witness ==
    /\ ret.op = "FsPath"
    /\ ret.name = <<"/", "i", "n", "m", "e", "m", "x", "/", "a">>
    /\ ret.fs = Local
    /\ ret.path = ret.name

(***************************************************************************)
(* Properties of sinks and readers (specification Spec).                   *)
(*                                                                         *)
(* A reader records the sink that the last Create of its path had returned *)
(* when it was opened (sink) and how much had been written through that    *)
(* sink by then (wlen0); got is what the reader has delivered, eof whether *)
(* its last Read returned io.EOF.                                          *)
(***************************************************************************)
\* every write through the sink of reader r came before the Open
NoWriteSinceOpen(r) ==
    readers[r].sink # 0 /\ Len(sinks[readers[r].sink].wrote) = readers[r].wlen0

\* no Create of the path of reader r came after the Open
NoCreateSinceOpen(r) == LatestSink(sinks, readers[r].path) = readers[r].sink

\* no other reader of the same file has delivered anything
FirstToRead(r) ==
    \A q \in DOMAIN readers :
        q # r /\ readers[q].sink = readers[r].sink => readers[q].got = <<>>

\* C3: round trip: after Create(p), writing b through the sink and closing
\* it, Open(p) succeeds and reading it to completion yields exactly b.
C3_RoundTrip ==
    /\ \A r \in DOMAIN readers :
           ( /\ readers[r].eof
             /\ NoWriteSinceOpen(r)
             /\ sinks[readers[r].sink].closed
             /\ FirstToRead(r) )
           => readers[r].got = sinks[readers[r].sink].wrote
    /\ \A s \in DOMAIN sinks :
           (ret.op = "Open" /\ ret.path = sinks[s].path) => ret.err = Nil /\ ret.h \in DOMAIN readers

C3_Witness ==
    \E r \in DOMAIN readers :
        /\ readers[r].eof
        /\ NoWriteSinceOpen(r)
        /\ sinks[readers[r].sink].closed
        /\ FirstToRead(r)
        /\ Len(readers[r].got) = 2
        /\ readers[r].got[1] # readers[r].got[2]
        /\ readers[r].got = sinks[readers[r].sink].wrote

\* C4: Create truncates: while nothing has been written through the sink of
\* the last Create(p), Stat(p) reports size 0 and a reader opened on p since
\* that Create delivers nothing, whatever p held before.
C4_CreateTruncates ==
    \A s \in DOMAIN sinks :
        (s = LatestSink(sinks, sinks[s].path) /\ sinks[s].wrote = <<>>) =>
            /\ (ret.op = "Stat" /\ ret.path = sinks[s].path) =>
                   /\ ret.err = Nil
                   /\ \A i \in ret.info : i.size = 0
                   /\ ret.info # {}
            /\ \A r \in DOMAIN readers : readers[r].sink = s => readers[r].got = <<>>

C4_Witness ==
    \E s \in DOMAIN sinks, old \in DOMAIN sinks :
        /\ old < s
        /\ sinks[old].path = sinks[s].path
        /\ sinks[old].wrote # <<>>
        /\ s = LatestSink(sinks, sinks[s].path)
        /\ sinks[s].wrote = <<>>
        /\ \E r \in DOMAIN readers : readers[r].sink = s /\ readers[r].eof
        /\ ret.op = "Stat" /\ ret.path = sinks[s].path /\ ret.err = Nil

\* C5: every reader of Open(p) is an independent cursor from offset 0: read
\* to completion, with no write and no Create on p since its Open, it has
\* delivered the full content of p, whatever other readers did.
C5_IndependentReaders ==
    \A r \in DOMAIN readers :
        (readers[r].eof /\ NoWriteSinceOpen(r) /\ NoCreateSinceOpen(r))
        => readers[r].got = sinks[readers[r].sink].wrote

(***************************************************************************)
(* Properties of the hierarchy (specification SpecDir).  In every state    *)
(* ret is the result of the last call and im the map that call left, so a  *)
(* property of ReadDir or Stat relates ret to im.                          *)
(***************************************************************************)
\* the key of the directory marker that ReadDir(path) requires
DirKey(path) == IF path[Len(path)] = Slash THEN path ELSE path \o <<Slash>>

\* the keys of the map strictly below the directory key d
Below(d) == {k \in DOMAIN im : StartsWith(k, d) /\ k # d}

\* the first path segment of s
FirstSegment(s) ==
    LET I == {i \in 1..Len(s) : s[i] = Slash}
    IN  IF I = {} THEN s ELSE SubSeq(s, 1, (CHOOSE i \in I : \A j \in I : i <= j) - 1)

\* key k was installed by a Create
CreatedByCreate(k) == \E s \in DOMAIN sinks : sinks[s].path = k

C7_ReadDirEmpty ==
    (ret.op = "ReadDir" /\ DirKey(ret.path) \in DOMAIN im /\ Below(DirKey(ret.path)) = {}) =>
        /\ ret.err = Nil
        /\ BagCardinality(ret.infos) = 0

C7_Witness ==
    /\ ret.op = "ReadDir"
    /\ DirKey(ret.path) \in DOMAIN im
    /\ ~CreatedByCreate(DirKey(ret.path))
    /\ Below(DirKey(ret.path)) = {}
    /\ ret.path # DirKey(ret.path)
    /\ ret.err = Nil
    /\ BagCardinality(ret.infos) = 0

\* the only entry below the directory key d is the file d + b, for a single
\* segment b, and it was created by Create
OnlyChild(d, b) ==
    /\ d \in DOMAIN im
    /\ Below(d) = {d \o b}
    /\ b # <<>>
    /\ \A i \in 1..Len(b) : b[i] # Slash
    /\ CreatedByCreate(d \o b)

\* C8: after Mkdir(d) and Create(d/b) for a single segment b, with no other
\* entry under d, ReadDir(d) returns exactly one record, named b, that is
\* not a directory.
C8_ReadDirOneFile ==
    ret.op = "ReadDir" =>
        \A k \in DOMAIN im :
            LET d == DirKey(ret.path)
                b == Suffix(k, d)
            IN  (StartsWith(k, d) /\ OnlyChild(d, b)) =>
                    /\ ret.err = Nil
                    /\ BagCardinality(ret.infos) = 1
                    /\ \A i \in BagToSet(ret.infos) : i.name = b /\ i.dir = FALSE

C8_Witness ==
    /\ ret.op = "ReadDir"
    /\ ret.path = <<"/", "a">>
    /\ OnlyChild(<<"/", "a", "/">>, <<"b">>)
    /\ ~CreatedByCreate(<<"/", "a", "/">>)
    /\ \E s \in DOMAIN sinks :
           sinks[s].path = <<"/", "a", "/", "b">> /\ sinks[s].wrote # <<>> /\ sinks[s].closed
    /\ BagCardinality(ret.infos) = 1
    /\ \E i \in BagToSet(ret.infos) : i.name = <<"b">> /\ i.size = 1 /\ i.dir = FALSE

C10_StatExistence ==
    ret.op = "Stat" =>
        /\ ret.path \notin DOMAIN im => IsNotExist(ret.err) /\ ret.info = {}
        /\ CreatedByCreate(ret.path) => ret.err = Nil /\ Cardinality(ret.info) = 1
        /\ (ret.err = Nil) # (ret.info = {})

C10_Witness ==
    /\ ret.op = "Stat"
    /\ CreatedByCreate(ret.path)
    /\ ret.err = Nil
    /\ \E i \in ret.info : i.size = 1 /\ i.dir = FALSE

C10_WitnessAbsent ==
    /\ ret.op = "Stat"
    /\ ret.path \notin DOMAIN im
    /\ im # <<>>
    /\ IsNotExist(ret.err)

(***************************************************************************)
(* Properties of the keys of the store.                                    *)
(***************************************************************************)
\* the keys under which the map holds the buffer that sink s wraps
KeysOfSink(s) == {k \in DOMAIN im : im[k] = sinks[s].b}

\* C11: Create stores the file under a key that does not end in the
\* separator, whether or not the path was given with one, so that Stat of
\* the path after the Create and before any write reports size 0 and
\* isDirectory = false.
C11_CreateFileKey ==
    /\ \A s \in DOMAIN sinks : \A k \in KeysOfSink(s) : ~EndsWithSlash(k)
    /\ \A s \in DOMAIN sinks :
           (ret.op = "Stat" /\ ret.path = sinks[s].path /\ ret.path \in KeysOfSink(s)
               /\ sinks[s].wrote = <<>>) =>
               /\ ret.err = Nil
               /\ \A i \in ret.info : i.size = 0 /\ i.dir = FALSE

\* C12: Open of an in-memory path that is absent from the store fails with
\* an error that os.IsNotExist recognises.
C12_OpenAbsentNotExist ==
    (ret.op = "Open" /\ ret.fs = InMem /\ ret.path \notin DOMAIN im) =>
        /\ ret.err # Nil
        /\ IsNotExist(ret.err)

\* the content of the store: for every key the bytes of its buffer
Content(m, h) == [k \in DOMAIN m |-> h[m[k]].buf]

\* C13: Mkdir(d) on a directory whose marker exists returns no error and
\* leaves the store as it was: the same keys, the same content for each.
C13_MkdirIdempotent ==
    [][(ret'.op = "Mkdir" /\ DirKey(ret'.path) \in DOMAIN im) =>
           /\ ret'.err = Nil
           /\ Content(im', heap') = Content(im, heap)]_vars

\* key k holds a buffer that no Create returned: a marker of Mkdir
MadeByMkdir(k) == \A s \in DOMAIN sinks : sinks[s].b # im[k]

\* the directory key d is a proper ancestor of key k
IsAncestor(d, k) == EndsWithSlash(d) /\ StartsWith(k, d) /\ k # d

\* C14: Mkdir creates the directory along with its parents: while a marker
\* made by Mkdir is in the store, ReadDir of every ancestor directory of it
\* succeeds and Stat of the ancestor reports a directory.
C14_MkdirParents ==
    \A k \in DOMAIN im :
        (ret.op \in {"ReadDir", "Stat"} /\ EndsWithSlash(k) /\ MadeByMkdir(k)
            /\ IsAncestor(DirKey(ret.path), k)) =>
            /\ ret.err = Nil
            /\ ret.op = "Stat" => \A i \in ret.info : i.dir = TRUE

C16_StatNormalises ==
    (ret.op = "Stat" /\ DirKey(ret.path) \in DOMAIN im /\ MadeByMkdir(DirKey(ret.path))) =>
        /\ ret.err = Nil
        /\ \A i \in ret.info : i.dir = TRUE

(***************************************************************************)
(* Properties of Exists (specification SpecExists).                        *)
(***************************************************************************)
\* the path of the last call is absent from its backend
Absent ==
    IF ret.fs = InMem THEN ret.path \notin DOMAIN im ELSE ret.path \notin DOMAIN disk

\* an ancestor of the local path of the last call is a regular file
BelowFile ==
    /\ ret.fs = Local
    /\ \E a \in Ancestors(ret.path) : a \in DOMAIN disk /\ disk[a] = "file"

\* C17 as stated: on the Local and in-memory backends Exists of an absent
\* path returns (false, nil), Exists of a present path returns (true, nil),
\* and Exists never returns true with an error.
C17_ExistsAbsent ==
    (ret.op = "Exists" /\ ret.fs \in {Local, InMem}) =>
        /\ Absent => ret.ok = FALSE /\ ret.err = Nil
        /\ ~Absent => ret.ok = TRUE /\ ret.err = Nil
        /\ ~(ret.ok = TRUE /\ ret.err # Nil)

\* C17 amended: Exists of an absent path returns (false, nil) unless an
\* ancestor of the local path is a regular file, in which case os.Stat
\* fails with ENOTDIR and Exists returns (false, error); Exists of a present
\* path returns (true, nil); Exists never returns true with an error.
C17_ExistsNotFound ==
    (ret.op = "Exists" /\ ret.fs \in {Local, InMem}) =>
        /\ (Absent /\ ~BelowFile) => ret.ok = FALSE /\ ret.err = Nil
        /\ (Absent /\ BelowFile) => ret.ok = FALSE /\ ret.err # Nil
        /\ ~Absent => ret.ok = TRUE /\ ret.err = Nil
        /\ ~(ret.ok = TRUE /\ ret.err # Nil)

C17_Witness ==
    /\ ret.op = "Exists"
    /\ ret.fs = Local
    /\ ret.path = <<"/", "t", "m", "p", "/", "q", "/", "y">>
    /\ <<"/", "t", "m", "p", "/", "q">> \notin DOMAIN disk
    /\ \E k \in DOMAIN disk : disk[k] = "file"
    /\ ret.ok = FALSE
    /\ ret.err = Nil

C17_WitnessCreated ==
    /\ ret.op = "Exists"
    /\ ret.fs = InMem
    /\ CreatedByCreate(ret.path)
    /\ ret.ok = TRUE

(***************************************************************************)
(* Properties of the connection handles (specification SpecRemote) and of  *)
(* the pipe of a WebFS Create (specification SpecPipe).                    *)
(***************************************************************************)
\* the connection handle of the backend of the last call is absent
NotConnected == (ret.fs = WebFS /\ ~webfs) \/ (ret.fs = HDFS /\ ~rpcfs)

\* C18: Create, Open, Stat, ReadDir and Mkdir on a WebFS or HDFS path whose
\* connection handle is absent return the not-connected error of the
\* backend and do not dereference the absent handle.
C18_CheckConnected ==
    (ret.op \in {"Create", "Open", "Stat", "ReadDir", "Mkdir"} /\ NotConnected) =>
        /\ ret.err = (IF ret.fs = WebFS THEN errNoWebFS ELSE errNoRpcFS)
        /\ ~crashed

\* C19: while no call of HookupHDFS has returned without error, the WebFS
\* handle and the RPC handle are both absent.
C19_AbsentUntilHooked == ~hooked => (~webfs /\ ~rpcfs)

\* a is a prefix of b
IsPrefix(a, b) == Len(a) <= Len(b) /\ SubSeq(b, 1, Len(a)) = a

\* C20: what the backend create call has read from the pipe is a prefix of
\* what the caller has written to the sink, and the two are equal once the
\* caller has closed the sink and the backend has read to end-of-data.
C20_PipePrefix ==
    \A i \in DOMAIN pipes :
        /\ IsPrefix(pipes[i].rd, pipes[i].wrote)
        /\ (pipes[i].wclosed /\ pipes[i].eof) => pipes[i].rd = pipes[i].wrote

C20_Witness ==
    \E i \in DOMAIN pipes :
        /\ pipes[i].wclosed
        /\ pipes[i].eof
        /\ pipes[i].pc = "done"
        /\ pipes[i].rd = <<1, 2>>
        /\ pipes[i].wrote = <<1, 2>>


(***************************************************************************)
(* The pipe under a scheduler that lets every goroutine run: the steps of  *)
(* the goroutine of Create are weakly fair, the caller's are not (the      *)
(* caller may stop at any point).  In SpecPipeLive webfs.Create reads r    *)
(* until io.EOF and does not fail; in SpecPipeFair it may fail at any      *)
(* point.                                                                  *)
(***************************************************************************)
\* the goroutine of pipe i is given its turn in webfs.Create
BackendFair(i) ==
    /\ WF_vars(i \in DOMAIN pipes /\ \E n \in 1..2 : BackendRead(i, n))
    /\ WF_vars(i \in DOMAIN pipes /\ BackendEOF(i))
    /\ WF_vars(i \in DOMAIN pipes /\ BackendReturn(i))

\* the goroutine of pipe i is given its turn in the branch e != nil
GoFair(i) ==
    /\ WF_vars(i \in DOMAIN pipes /\ GoCloseR(i))
    /\ WF_vars(i \in DOMAIN pipes /\ GoCloseW(i))
    /\ WF_vars(i \in DOMAIN pipes /\ GoPanic(i))

NextPipeLive ==
    \/ \E testOK \in BOOLEAN : HookupHDFS(FALSE, TRUE, TRUE, testOK)
    \/ Len(pipes) < MaxPipes /\ Create(WebFSPrefix \o <<"a">>)
    \/ \E i \in DOMAIN pipes, p \in Chunks :
           PipeBytes(pipes) + Len(p) <= MaxPipeBytes /\ PipeWrite(i, p)
    \/ \E i \in DOMAIN pipes : PipeClose(i)
    \/ \E i \in DOMAIN pipes, n \in 1..2 : BackendRead(i, n)
    \/ \E i \in DOMAIN pipes : BackendEOF(i)
    \/ \E i \in DOMAIN pipes : BackendReturn(i)

SpecPipeLive == Init /\ [][NextPipeLive]_vars /\ \A i \in 1..MaxPipes : BackendFair(i)

SpecPipeFair ==
    Init /\ [][NextPipe]_vars /\ \A i \in 1..MaxPipes : BackendFair(i) /\ GoFair(i)

\* C21: under a fair scheduler and a backend create call that reads until
\* end of data and does not fail, once the caller has closed the sink the
\* backend call eventually completes and the goroutine terminates.
C21_CloseLeadsToDone ==
    \A i \in 1..MaxPipes :
        (i \in DOMAIN pipes /\ pipes[i].wclosed) ~> (i \in DOMAIN pipes /\ pipes[i].pc = "done")

C21_Witness ==
    \E i \in DOMAIN pipes :
        /\ pipes[i].wclosed
        /\ pipes[i].wrote # <<>>
        /\ pipes[i].rd = pipes[i].wrote
        /\ pipes[i].pc = "done"


\* C22: the caller's final Close on the sink of a WebFS Create blocks until
\* the backend create call has returned: in no reachable state has Close
\* returned while the backend call is still in progress.
C22_CloseBlocks ==
    ret.op = "PipeClose" => pipes[ret.h].pc # "run"

\* C22, amended: Close signals end of data and returns at once; the backend
\* create call observes end of data, and returns without an error, only
\* after the caller has closed the sink.
C22_DoneOnlyAfterClose ==
    \A i \in DOMAIN pipes :
        (pipes[i].eof \/ pipes[i].pc = "done") => pipes[i].wclosed

C22_Witness ==
    /\ ret.op = "PipeClose"
    /\ pipes[ret.h].wrote # <<>>
    /\ pipes[ret.h].eof
    /\ pipes[ret.h].pc = "done"

\* C24: if the backend create call of the pipe fails, the goroutine closes
\* both ends of the pipe and the process terminates; Create has returned
\* the sink without an error, and the failure is never its result.
C24_FailureAborts ==
    /\ [](\A i \in DOMAIN pipes :
              pipes[i].pc = "panicked" => pipes[i].rclosed /\ pipes[i].wclosed /\ crashed)
    /\ []((ret.op = "Create" /\ ret.fs = WebFS /\ webfs) => ret.err = Nil /\ ret.h \in DOMAIN pipes)
    /\ \A i \in 1..MaxPipes :
           (i \in DOMAIN pipes /\ pipes[i].pc = "failed") ~> crashed

C24_Witness ==
    /\ crashed
    /\ \E i \in DOMAIN pipes :
           /\ pipes[i].pc = "panicked"
           /\ pipes[i].rclosed
           /\ pipes[i].wclosed
           /\ pipes[i].wrote # <<>>


\* C23: every operation returns a result or an error and none aborts the
\* process: the only reachable abort is the one of the goroutine of a pipe
\* whose backend call failed.
C23_OnlyPipeAborts ==
    crashed => \E i \in DOMAIN pipes : pipes[i].pc = "panicked"


\* every buffer that a Mkdir allocated is the buffer of a key other than d:
\* no Mkdir was called for the directory key d
NoMkdirFor(d) ==
    \A j \in DOMAIN heap :
        (\A s \in DOMAIN sinks : sinks[s].b # j) =>
            \E k \in DOMAIN im : k # d /\ im[k] = j

\* C25: when Mkdir was never called for the directory d, ReadDir(d) fails
\* with an error that os.IsNotExist recognises, whatever keys that look
\* like children of d the store holds.
C25_ReadDirNeedsMkdir ==
    (ret.op = "ReadDir" /\ NoMkdirFor(DirKey(ret.path))) => IsNotExist(ret.err)

\* the file key k was installed by Create directly under the directory key d
FileUnder(d, k) ==
    /\ k \in DOMAIN im
    /\ CreatedByCreate(k)
    /\ StartsWith(k, d)
    /\ k # d
    /\ \A i \in (Len(d) + 1)..Len(k) : k[i] # Slash

C27_NotFoundDistinct ==
    (ret.fs = WebFS /\ ret.op \in {"Stat", "ReadDir"}) =>
        /\ IsNotExist(ret.err) => ret.reply = ErrRemoteNotFound
        /\ ret.reply = ErrRemote => ret.err # Nil /\ ~IsNotExist(ret.err)

\* C28: ReadDir(d) of a directory made by Mkdir reports a child that is a
\* directory marker made by Mkdir as a directory and a child created by
\* Create as a file.
C28_ChildDirFlag ==
    (ret.op = "ReadDir" /\ ret.err = Nil /\ MadeByMkdir(DirKey(ret.path))) =>
        \A k \in Below(DirKey(ret.path)) :
            LET x == Suffix(k, DirKey(ret.path))
            IN  /\ (EndsWithSlash(k) /\ MadeByMkdir(k) /\ FirstSegment(x) \o <<Slash>> = x) =>
                       \E i \in BagToSet(ret.infos) : i.name = FirstSegment(x) /\ i.dir = TRUE
                /\ FileUnder(DirKey(ret.path), k) =>
                       \E i \in BagToSet(ret.infos) : i.name = x /\ i.dir = FALSE

\* C29: the records of one ReadDir have pairwise distinct names.
C29_DistinctNames ==
    ret.op = "ReadDir" =>
        \A i \in BagToSet(ret.infos) :
            /\ CopiesIn(i, ret.infos) = 1
            /\ \A j \in BagToSet(ret.infos) : i.name = j.name => i = j

\* C30: every key that ends in the separator has an empty buffer, so every
\* record reported as a directory has size 0.
C30_MarkersEmpty ==
    /\ \A k \in DOMAIN im : EndsWithSlash(k) => BufLen(heap[im[k]]) = 0
    /\ ret.op = "Stat" => \A i \in ret.info : i.dir => i.size = 0
    /\ ret.op = "ReadDir" => \A i \in BagToSet(ret.infos) : i.dir => i.size = 0


\* C31: the size that Stat reports for a file, and the size of its record in
\* ReadDir, is the number of bytes written through the sink of the most
\* recent Create of its path, whatever Open calls and reads happened since.
C31_SizeIsWritten ==
    /\ (ret.op = "Stat" /\ CreatedByCreate(ret.path) /\ ~EndsWithSlash(ret.path)) =>
           /\ ret.err = Nil
           /\ \A i \in ret.info : i.size = WroteLen(sinks, LatestSink(sinks, ret.path))
    /\ (ret.op = "ReadDir" /\ ret.err = Nil) =>
           \A k \in DOMAIN im :
               FileUnder(DirKey(ret.path), k) =>
                   \E i \in BagToSet(ret.infos) :
                       /\ i.name = Suffix(k, DirKey(ret.path))
                       /\ i.size = WroteLen(sinks, LatestSink(sinks, k))


\* C32: when the caller of a WebFS Create never closes the sink and the
\* backend create call reads until end of data, the goroutine never
\* terminates: as long as the sink is not closed the backend call is still
\* in progress, and it has not seen end of data.
C32_AbandonedSinkBlocks ==
    \A i \in DOMAIN pipes :
        ~pipes[i].wclosed => pipes[i].pc = "run" /\ ~pipes[i].eof

C32_Witness ==
    /\ ret.op = "PipeWrite"
    /\ ret.err = Nil
    /\ \E i \in DOMAIN pipes :
           /\ ~pipes[i].wclosed
           /\ Len(pipes[i].wrote) = MaxPipeBytes
           /\ pipes[i].rd = pipes[i].wrote
           /\ pipes[i].pc = "run"


\* C33: no call removes an entry of the in-memory store: the key set only
\* grows, so a path for which Exists is true stays so in every later state.
C33_KeysOnlyGrow ==
    [][\A k \in DOMAIN im : InMemFS_Exists(im, k) => InMemFS_Exists(im', k)]_vars

C33_Witness ==
    /\ ret.op = "Mkdir"
    /\ \E s1, s2 \in DOMAIN sinks :
           /\ s1 # s2
           /\ sinks[s1].path = sinks[s2].path
           /\ AsDir(sinks[s1].path) = DirKey(ret.path)
           /\ InMemFS_Exists(im, sinks[s1].path)


\* C34: Put returns (false, error) without calling the copy of the backend
\* unless the WebFS connection is established, localFile is a Local path
\* and hdfsPath is a WebFS path; a destination under /hdfs/ or /inmem/ is
\* rejected, and the not-connected error comes before both path errors.
C34_PutGuards ==
    ret.op = "Put" =>
        LET all3 == /\ webfs
                    /\ FsPath(ret.name).fs = Local
                    /\ FsPath(ret.dest).fs = WebFS
        IN  /\ ~all3 => ~ret.sent /\ ~ret.ok /\ ret.err # Nil
            /\ ret.sent => all3
            /\ FsPath(ret.dest).fs \in {HDFS, InMem} => ~ret.sent /\ ret.err # Nil
            /\ ~webfs => ret.err = errNoWebFS

C34_Witness ==
    /\ ret.op = "Put"
    /\ webfs
    /\ FsPath(ret.name).fs = Local
    /\ FsPath(ret.dest).fs = HDFS
    /\ ~ret.sent
    /\ ret.err = ErrMustBeWebHDFS

C34_WitnessUnconnected ==
    /\ ret.op = "Put"
    /\ ~webfs
    /\ FsPath(ret.name).fs = InMem
    /\ FsPath(ret.dest).fs = InMem
    /\ ret.err = errNoWebFS


\* C35: where Create of an in-memory path returns the write end of a pipe
\* that a goroutine copies into the file, once the caller's Writes and Close
\* have returned, Open of the path read to io.EOF yields every byte the
\* caller wrote (the reader being the only one of the file).
C35_OpenSeesAll ==
    \A r \in DOMAIN readers, i \in DOMAIN pipes :
        ( /\ sinks[i].b = readers[r].b
          /\ readers[r].after
          /\ readers[r].eof
          /\ \A q \in DOMAIN readers : readers[q].b = readers[r].b => q = r ) =>
            readers[r].got = pipes[i].wrote


\* the unified path does not start with a reserved prefix
Unreserved(name) == \A p \in ReservedPrefixes : ~StartsWith(name, p)

\* C36: a reserved token that is not followed by the separator does not
\* select its backend: a path that starts with none of "/webfs/", "/hdfs/"
\* and "/inmem/" is classified Local with the path unchanged, and Mkdir of
\* it makes the directory on the local filesystem and leaves the in-memory
\* store unchanged.
C36_TokenNeedsSeparator ==
    [][(ret'.op \in {"Mkdir", "Stat", "Exists"} /\ Unreserved(ret'.name)) =>
           /\ ret'.fs = Local
           /\ ret'.path = ret'.name
           /\ im' = im
           /\ heap' = heap
           /\ ret'.op = "Mkdir" =>
                  /\ ret'.err = Nil
                  /\ ret'.name \in DOMAIN disk'
                  /\ disk'[ret'.name] = "dir"]_vars

C36_Witness ==
    /\ ret.op = "Mkdir"
    /\ ret.name = SubSeq(InMemPrefix, 1, Len(InMemPrefix) - 1)
    /\ ret.fs = Local
    /\ ret.name \in DOMAIN disk
    /\ DOMAIN im = {<<"/", "a", "/">>}


\* C37: under every interleaving of two concurrent Create(p) calls each
\* call returns a sink on the buffer that this call installed: no two calls
\* return sinks on one buffer, and the content of p is the bytes written
\* through one of the sinks, never a mixture.
C37_OwnBuffer ==
    /\ \A c \in DOMAIN sinks : sinks[c].pc = "done" => sinks[c].b = sinks[c].own
    /\ \A c1, c2 \in DOMAIN sinks :
           (c1 # c2 /\ sinks[c1].pc = "done" /\ sinks[c2].pc = "done") =>
               sinks[c1].b # sinks[c2].b
    /\ (\A c \in DOMAIN sinks : sinks[c].pc = "done") =>
           \A k \in DOMAIN im :
               \E c \in DOMAIN sinks :
                   sinks[c].path = k /\ im[k] # 0 /\ heap[im[k]].buf = sinks[c].wrote


\* g is a run of consecutive bytes of w
IsSegment(g, w) ==
    \E a \in 0..Len(w) : a + Len(g) <= Len(w) /\ g = SubSeq(w, a + 1, a + Len(g))

\* C38: a stale sink cannot corrupt a re-created file: the bytes of the
\* file p are those written through the sink of the last Create(p) and no
\* others, so what readers opened since then deliver and the size Stat(p)
\* reports come from that sink alone, whatever is written through a sink
\* of an earlier Create(p).
C38_StaleSinkHarmless ==
    \A k \in DOMAIN im :
        (CreatedByCreate(k) /\ ~EndsWithSlash(k)) =>
            LET s == LatestSink(sinks, k)
            IN  /\ heap[im[k]].buf = sinks[s].wrote
                /\ (ret.op = "Stat" /\ ret.path = k) =>
                       \A i \in ret.info : i.size <= Len(sinks[s].wrote)
                /\ \A r \in DOMAIN readers :
                       readers[r].sink = s => IsSegment(readers[r].got, sinks[s].wrote)

C38_Witness ==
    /\ Len(sinks) = 2
    /\ sinks[1].path = sinks[2].path
    /\ ret.op = "Write"
    /\ sinks[2].wrote = <<>>
    /\ sinks[1].wrote # <<>>
    /\ \E r \in DOMAIN readers : readers[r].sink = 2


\* C39: Close on an in-memory sink is a no-op: it returns no error and
\* leaves the store unchanged; the bytes written through a sink are in the
\* file at once, closed or not, so Stat reports them before any Close; and a
\* Write through a sink that was closed still succeeds and appends.
C39_CloseNoOp ==
    /\ [][ret'.op = "Close" => ret'.err = Nil /\ im' = im /\ heap' = heap]_vars
    /\ [][ret'.op = "Write" =>
              /\ ret'.err = Nil
              /\ \E s \in DOMAIN sinks :
                     /\ sinks'[s].wrote # sinks[s].wrote
                     /\ Len(heap'[sinks[s].b].buf) > Len(heap[sinks[s].b].buf)]_vars
    /\ [](\A s \in DOMAIN sinks :
              ( /\ ret.op = "Stat"
                /\ ret.path = sinks[s].path
                /\ s = LatestSink(sinks, sinks[s].path)
                /\ \A r \in DOMAIN readers : readers[r].b = sinks[s].b => readers[r].got = <<>> ) =>
                  \A i \in ret.info : i.size = Len(sinks[s].wrote))

C39_Witness ==
    /\ Len(sinks) = 1
    /\ sinks[1].closed
    /\ ret.op = "Write"
    /\ Len(sinks[1].wrote) = 2
    /\ heap[im[sinks[1].path]].buf = sinks[1].wrote

C39_WitnessBeforeClose ==
    /\ Len(sinks) = 1
    /\ ~sinks[1].closed
    /\ ret.op = "Stat"
    /\ \E i \in ret.info : i.size = 2

====
